---- MODULE Spec2Model ----
(***************************************************************************)
(* Wallet connection session manager of the Telegram membership bot:       *)
(* WalletService (src/walletService.js) and the chat-layer handlers of     *)
(* TelegramMembershipBot that drive it (src/unnamed/part_001).             *)
(*                                                                         *)
(* One step of the model is one run of JavaScript code between two         *)
(* suspension points at which the event loop can run other work: the       *)
(* awaits on the protocol client (connect, disconnect, request), on the    *)
(* approval future, on bot.sendMessage, and the timers.  An await on an    *)
(* async method of the service that does no I/O itself (checkConnection,   *)
(* cleanupSession, killSession of the manual connector) resumes in the     *)
(* same turn of the event loop and is part of the step.                    *)
(***************************************************************************)
EXTENDS Integers, FiniteSets, Sequences, TLC

\* ------------------------------------------------------------------ bounds
MaxSessions == 2      \* createWalletConnectSession calls (one uuid each)
MaxTx       == 2      \* sendTransaction calls that reach the wallet (one txId each)
OtherChain  == 56     \* a chain id that is not the required one

\* --------------------------------------------------------------- constants
RequiredChain == 97   \* config.chainId
IdleWindow    == 1    \* the 30-minute idle window; one clock tick is 30 minutes
Fresh         == 0    \* Date.now() - lastActivity right after lastActivity = Date.now()
Null          == 0    \* null / undefined

Users     == {1}
SIDs      == 1..MaxSessions
TXIDs     == 1..MaxTx
Chains    == {RequiredChain, OtherChain}

VARIABLES
  signClient,           \* this.signClient is set (SignClient.init resolved)
  hasProjectId,         \* process.env.WALLETCONNECT_PROJECT_ID is set
  listener,             \* a 'walletConnected' listener is registered (the bot's)
  sessions,             \* this.sessions: sessionId -> session data
  userSessions,         \* this.userSessions: telegramUserId -> sessionId
  pendingTransactions,  \* this.pendingTransactions: sessionId -> pending tx
  connector,            \* the connector object built by each create call
  approval,             \* the approval future of each create call
  create,               \* each /connect invocation, by the sessionId it draws
  hc,                   \* handleConnect invocations awaiting 'Creating...'
  discs,                \* handleDisconnect invocations awaiting the wallet
  notifs,               \* handleWalletConnected invocations awaiting sendMessage
  notified,             \* 'Wallet Connected' messages sent, by observed session
  send,                 \* each sendTransaction call, by the txId it draws
  refused               \* what the latest sendTransaction that failed before
                        \* any request threw to its caller

vars == <<signClient, hasProjectId, listener, sessions, userSessions,
          pendingTransactions, connector, approval, create, hc, discs,
          notifs, notified, send, refused>>

\* ----------------------------------------------------------------- helpers
Remove(f, k) == [x \in DOMAIN f \ {k} |-> f[x]]
Put(f, k, v) == [x \in DOMAIN f \cup {k} |-> IF x = k THEN v ELSE f[x]]

Tables == [sessions |-> sessions, userSessions |-> userSessions,
           pendingTransactions |-> pendingTransactions]

SetTables(T) ==
  /\ sessions' = T.sessions
  /\ userSessions' = T.userSessions
  /\ pendingTransactions' = T.pendingTransactions

Allocated == {k \in SIDs : create[k].pc # "free"}
NextId == CHOOSE k \in SIDs \ Allocated : \A j \in SIDs \ Allocated : k <= j

RECURSIVE SumOver(_, _)
SumOver(f, S) ==
  IF S = {} THEN 0
  ELSE LET x == CHOOSE y \in S : TRUE IN f[x] + SumOver(f, S \ {x})

\* the account the wallet paired with session k authorizes
WalletAddr(k) == k

\* emitted: the last event the connector emitted ('connect', 'disconnect');
NoConnector == [kind |-> "none", connected |-> FALSE, topic |-> FALSE,
                accounts |-> <<>>, chainId |-> Null, emitted |-> "none"]
\* walletService.js:78-97
V2Connector == [NoConnector EXCEPT !.kind = "v2"]
\* walletService.js:185-206
ManualConnector == [NoConnector EXCEPT !.kind = "manual",
                                       !.chainId = RequiredChain]

\* pc: where the call is; old: the session the call found indexed for its
\* user; poll: the poller it started ("on", or how it ended); timer: its
\* 5-minute timer is armed; timedOut: the timer sent 'Connection Timeout';
\* discErr: the wallet-side disconnect of the old session has thrown and
\* disconnectWallet has not yet gone on
NoCreate == [pc |-> "free", user |-> Null, old |-> Null,
             poll |-> "off", timer |-> FALSE, timedOut |-> FALSE,
             discErr |-> FALSE]

\* result: what the call returned or threw; txHash: the hash it returned
NoSend == [pc |-> "free", user |-> Null, sessionId |-> Null,
           result |-> "none", txHash |-> Null, reqOpen |-> FALSE]

\* indexed: the session the user index named when the call failed
NoRefusal == [user |-> Null, indexed |-> Null, thrown |-> "none", wraps |-> ""]

Sent == {t \in TXIDs : send[t].pc # "free"}
NextTx == CHOOSE t \in TXIDs \ Sent : \A j \in TXIDs \ Sent : t <= j

env == <<signClient, hasProjectId, listener>>

\* ------------------------------------------------------- session registry
\* cleanupSession without this.pendingTransactions.delete(sessionId)
cleanupSession_KeepsPending(T, sessionId) ==
  IF sessionId \in DOMAIN T.sessions
  THEN [T EXCEPT !.sessions = Remove(@, sessionId),
                 !.userSessions =
                   Remove(@, T.sessions[sessionId].telegramUserId)]
  ELSE T

\* cleanupSession without this.userSessions.delete(session.telegramUserId)
cleanupSession_KeepsIndex(T, sessionId) ==
  IF sessionId \in DOMAIN T.sessions
  THEN [T EXCEPT !.sessions = Remove(@, sessionId),
                 !.pendingTransactions = Remove(@, sessionId)]
  ELSE T

cleanupSession(T, sessionId) ==
  IF sessionId \in DOMAIN T.sessions
  THEN [sessions |-> Remove(T.sessions, sessionId),
        userSessions |->
          Remove(T.userSessions, T.sessions[sessionId].telegramUserId),
        pendingTransactions |-> Remove(T.pendingTransactions, sessionId)]
  ELSE T

\* Date.now() - session.lastActivity > 30 * 60 * 1000
Expired(session) == session.idle > IdleWindow

NotConnected(reason) ==
  [connected |-> FALSE, address |-> Null, chainId |-> Null,
   sessionId |-> Null, reason |-> reason]

\* checkConnection without the idle-window test
checkConnection_NoExpiry(T, telegramUserId) ==
  IF telegramUserId \notin DOMAIN T.userSessions
  THEN [ret |-> NotConnected("No session found"), T |-> T]
  ELSE LET sessionId == T.userSessions[telegramUserId] IN
    IF sessionId \notin DOMAIN T.sessions
    THEN [ret |-> NotConnected("Session expired"),
          T |-> [T EXCEPT !.userSessions = Remove(@, telegramUserId)]]
    ELSE [ret |-> [connected |-> T.sessions[sessionId].connected,
                   address |-> T.sessions[sessionId].address,
                   chainId |-> T.sessions[sessionId].chainId,
                   sessionId |-> sessionId,
                   reason |-> ""],
          T |-> T]

\* a checkConnection that counts as activity of the session it reports
checkConnection_Touches(T, telegramUserId) ==
  IF telegramUserId \notin DOMAIN T.userSessions
  THEN [ret |-> NotConnected("No session found"), T |-> T]
  ELSE LET sessionId == T.userSessions[telegramUserId] IN
    IF sessionId \notin DOMAIN T.sessions
    THEN [ret |-> NotConnected("Session expired"),
          T |-> [T EXCEPT !.userSessions = Remove(@, telegramUserId)]]
    ELSE LET session == T.sessions[sessionId] IN
      IF Expired(session)
      THEN [ret |-> NotConnected("Session timeout"),
            T |-> cleanupSession(T, sessionId)]
      ELSE [ret |-> [connected |-> session.connected,
                     address |-> session.address,
                     chainId |-> session.chainId,
                     sessionId |-> sessionId,
                     reason |-> ""],
            T |-> [T EXCEPT !.sessions[sessionId].idle = Fresh]]

\* checkConnection: the value it returns (ret) and the tables it leaves (T)
checkConnection(T, telegramUserId) ==
  IF telegramUserId \notin DOMAIN T.userSessions
  THEN [ret |-> NotConnected("No session found"), T |-> T]
  ELSE LET sessionId == T.userSessions[telegramUserId] IN
    IF sessionId \notin DOMAIN T.sessions
    THEN [ret |-> NotConnected("Session expired"),
          T |-> [T EXCEPT !.userSessions = Remove(@, telegramUserId)]]
    ELSE LET session == T.sessions[sessionId] IN
      IF Expired(session)
      THEN [ret |-> NotConnected("Session timeout"),
            T |-> cleanupSession(T, sessionId)]
      ELSE [ret |-> [connected |-> session.connected,
                     address |-> session.address,
                     chainId |-> session.chainId,
                     sessionId |-> sessionId,
                     reason |-> ""],
            T |-> T]

RECURSIVE cleanupEach(_, _)
cleanupEach(T, ids) ==
  IF ids = {} THEN T
  ELSE LET k == CHOOSE x \in ids : TRUE
       IN cleanupEach(cleanupSession(T, k), ids \ {k})

\* a sweep that walks the user index instead of the session store
cleanupExpiredSessions_IndexedOnly(T) ==
  cleanupEach(T, {k \in DOMAIN T.sessions :
                    /\ Expired(T.sessions[k])
                    /\ \E u \in DOMAIN T.userSessions : T.userSessions[u] = k})

cleanupExpiredSessions(T) ==
  cleanupEach(T, {k \in DOMAIN T.sessions : Expired(T.sessions[k])})

\* disconnectWallet suspends on signClient.disconnect only for a v2 connector
\* that is bound to a topic
AwaitsWalletDisconnect(T, sessionId) ==
  /\ sessionId \in DOMAIN T.sessions
  /\ connector[sessionId].kind = "v2"
  /\ connector[sessionId].topic

\* --------------------------------------------------- connection negotiator
\* handleWalletConnected that tests notificationSent but never sets it
handleWalletConnected_NeverSetsFlag(T, N, C, userId, address, chainId, observed) ==
  LET has == userId \in DOMAIN T.userSessions
      sessionId == T.userSessions[userId]
      stored == has /\ sessionId \in DOMAIN T.sessions
  IN IF stored /\ T.sessions[sessionId].notificationSent
     THEN [T |-> T, notifs |-> N, notified |-> C]
     ELSE [T |-> T,
           notifs |-> IF stored
                      THEN N \cup {[sessionId |-> sessionId,
                                    address |-> address,
                                    chainId |-> chainId]}
                      ELSE N,
           notified |-> [C EXCEPT ![observed] = IF @ < 2 THEN @ + 1 ELSE @]]

\* handleWalletConnected up to its await on sendMessage.  observed is the
\* session whose connected state made the caller call it (the sessionId of
\* the walletConnected event, or of the poll's checkConnection result).
handleWalletConnected(T, N, C, userId, address, chainId, observed) ==
  LET has == userId \in DOMAIN T.userSessions
      sessionId == T.userSessions[userId]
      stored == has /\ sessionId \in DOMAIN T.sessions
  IN IF stored /\ T.sessions[sessionId].notificationSent
     THEN [T |-> T, notifs |-> N, notified |-> C]
     ELSE [T |-> IF stored
                 THEN [T EXCEPT !.sessions[sessionId].notificationSent = TRUE]
                 ELSE T,
           notifs |-> IF stored
                      THEN N \cup {[sessionId |-> sessionId,
                                    address |-> address,
                                    chainId |-> chainId]}
                      ELSE N,
           notified |-> [C EXCEPT ![observed] = IF @ < 2 THEN @ + 1 ELSE @]]

\* sessionData of createWalletConnectSession
NewSession(telegramUserId) ==
  [telegramUserId |-> telegramUserId, connected |-> FALSE, address |-> Null,
   chainId |-> RequiredChain, idle |-> Fresh,
   notificationSent |-> FALSE,
   isManual |-> (~signClient \/ ~hasProjectId)]

\* createWalletConnectSession from the connector it built to its return;
\* under the bot, handleConnect goes on to send the wallet options
StoreSession(k, u, old, T, conn, appr) ==
  /\ connector' = [connector EXCEPT ![k] = conn]
  /\ approval' = [approval EXCEPT ![k] = appr]
  /\ SetTables([T EXCEPT !.sessions = Put(@, k, NewSession(u)),
                         !.userSessions = Put(@, u, k)])
  /\ create' = [create EXCEPT ![k] =
                 [NoCreate EXCEPT !.pc = IF listener THEN "options" ELSE "done",
                                  !.user = u, !.old = old]]

\* createWalletConnectSession after the old session is gone
ConnectPhase(k, u, old, T) ==
  IF signClient /\ hasProjectId
  THEN /\ create' = [create EXCEPT ![k] =
                      [NoCreate EXCEPT !.pc = "connect", !.user = u,
                                       !.old = old]]
       /\ SetTables(T)
       /\ UNCHANGED <<connector, approval>>
  ELSE StoreSession(k, u, old, T, ManualConnector, "none")

\* createWalletConnectSession up to its first await on the protocol client
createWalletConnectSession(k, u) ==
  IF u \in DOMAIN userSessions
  THEN LET old == userSessions[u] IN
       IF AwaitsWalletDisconnect(Tables, old)
       THEN /\ create' = [create EXCEPT ![k] =
                           [NoCreate EXCEPT !.pc = "disconnect",
                                            !.user = u, !.old = old]]
            /\ UNCHANGED <<sessions, userSessions, pendingTransactions,
                           connector, approval>>
       ELSE ConnectPhase(k, u, old, cleanupSession(Tables, old))
  ELSE ConnectPhase(k, u, Null, Tables)

\* an approval handler without the test if (address)
ApprovalCompletes_NoAddressTest(k, chainId, conn) ==
  LET address == IF conn.accounts # <<>> THEN conn.accounts[1] ELSE Null
      T1 == [Tables EXCEPT !.sessions[k] =
               [@ EXCEPT !.connected = TRUE, !.address = address,
                         !.chainId = chainId, !.idle = Fresh]]
      h == IF listener
           THEN handleWalletConnected(T1, notifs, notified,
                                      T1.sessions[k].telegramUserId,
                                      address, chainId, k)
           ELSE [T |-> T1, notifs |-> notifs, notified |-> notified]
  IN /\ connector' = [connector EXCEPT ![k] =
                       [conn EXCEPT !.chainId = chainId,
                                    !.emitted = IF address # Null
                                                THEN "connect" ELSE @]]
     /\ approval' = [approval EXCEPT ![k] = "resolved"]
     /\ IF k \in DOMAIN sessions
        THEN /\ sessions' = h.T.sessions
             /\ notifs' = h.notifs
             /\ notified' = h.notified
        ELSE UNCHANGED <<sessions, notifs, notified>>
     /\ UNCHANGED <<userSessions, pendingTransactions>>

\* the approval handler from connector.chainId = chainId to its end
ApprovalCompletes(k, chainId, conn) ==
  LET address == IF conn.accounts # <<>> THEN conn.accounts[1] ELSE Null
      T1 == [Tables EXCEPT !.sessions[k] =
               [@ EXCEPT !.connected = TRUE, !.address = address,
                         !.chainId = chainId, !.idle = Fresh]]
      h == IF listener
           THEN handleWalletConnected(T1, notifs, notified,
                                      T1.sessions[k].telegramUserId,
                                      address, chainId, k)
           ELSE [T |-> T1, notifs |-> notifs, notified |-> notified]
  IN /\ connector' = [connector EXCEPT ![k] =
                       [conn EXCEPT !.chainId = chainId,
                                    !.emitted = IF address # Null
                                                THEN "connect" ELSE @]]
     /\ approval' = [approval EXCEPT ![k] = "resolved"]
     /\ IF address # Null /\ k \in DOMAIN sessions
        THEN /\ sessions' = h.T.sessions
             /\ notifs' = h.notifs
             /\ notified' = h.notified
        ELSE UNCHANGED <<sessions, notifs, notified>>
     /\ UNCHANGED <<userSessions, pendingTransactions>>

\* -------------------------------------------------------- transaction relay
NotConnectedMsg   == "Wallet not connected"
NotEstablishedMsg == "WalletConnect session not properly established. Please reconnect your wallet."
RaceTimeoutMsg    == "Transaction request timeout (60s)"
\* errors the wallet's answer to eth_sendTransaction can carry
WalletErrors == {"User rejected the request", "Missing or invalid. request() topic",
                 "insufficient funds for gas"}

\* error.message.includes(part), for the messages and parts that occur
Includes(message, part) ==
  \/ message = "User rejected the request" /\ part = "User rejected"
  \/ message = RaceTimeoutMsg /\ part = "timeout"
  \/ message = "Missing or invalid. request() topic" /\ part = "Missing or invalid"

\* the catch block of sendTransaction: the error thrown to the caller
\* (thrown: its class; wraps: the message a 'Transaction failed: ...' error
\* carries) and the tables it leaves
sendTransactionCatch(T, telegramUserId, message) ==
  IF Includes(message, "User rejected")
  THEN [thrown |-> "rejected", wraps |-> "", T |-> T]
  ELSE IF Includes(message, "timeout")
  THEN [thrown |-> "timeout", wraps |-> "", T |-> T]
  ELSE IF Includes(message, "Missing or invalid")
  THEN [thrown |-> "config", wraps |-> "", T |-> T]
  ELSE [thrown |-> "failed", wraps |-> message,
        T |-> IF /\ telegramUserId \in DOMAIN T.userSessions
                 /\ T.userSessions[telegramUserId]
                      \in DOMAIN T.pendingTransactions
              THEN [T EXCEPT
                      !.pendingTransactions[T.userSessions[telegramUserId]] =
                        [@ EXCEPT !.status = "failed", !.error = message]]
              ELSE T]

\* sendTransactionResolved without session.lastActivity = Date.now()
sendTransactionResolved_NoRefresh(T, sessionId, txHash) ==
  IF sessionId \in DOMAIN T.pendingTransactions
  THEN [T EXCEPT !.pendingTransactions[sessionId] =
          [@ EXCEPT !.status = "sent", !.txHash = txHash]]
  ELSE T

\* a continuation that stores the sent record instead of updating the one
\* it finds
sendTransactionResolved_Recreates(T, sessionId, txHash) ==
  LET T1 == [T EXCEPT !.pendingTransactions =
               Put(@, sessionId, [id |-> Null, status |-> "sent",
                                  txHash |-> txHash, error |-> ""])]
  IN IF sessionId \in DOMAIN T1.sessions
     THEN [T1 EXCEPT !.sessions[sessionId].idle = Fresh]
     ELSE T1

\* sendTransaction after Promise.race resolved with the hash
sendTransactionResolved(T, sessionId, txHash) ==
  LET T1 == IF sessionId \in DOMAIN T.pendingTransactions
            THEN [T EXCEPT !.pendingTransactions[sessionId] =
                    [@ EXCEPT !.status = "sent", !.txHash = txHash]]
            ELSE T
  IN IF sessionId \in DOMAIN T1.sessions
     THEN [T1 EXCEPT !.sessions[sessionId].idle = Fresh]
     ELSE T1

\* sendTransaction without the test of connection.connected: the lookup of
\* a session that is not there throws a TypeError, which the catch block
\* wraps
sendTransactionBegin_NoConnectedTest(T, telegramUserId, txId) ==
  LET connection == checkConnection(T, telegramUserId)
      Thrown(message) ==
        LET e == sendTransactionCatch(connection.T, telegramUserId, message)
        IN [request |-> FALSE, thrown |-> e.thrown, wraps |-> e.wraps,
            T |-> e.T, sessionId |-> Null]
  IN IF \/ telegramUserId \notin DOMAIN connection.T.userSessions
        \/ connection.T.userSessions[telegramUserId]
             \notin DOMAIN connection.T.sessions
     THEN Thrown("Cannot read properties of undefined")
     ELSE LET sessionId == connection.T.userSessions[telegramUserId] IN
       IF connector[sessionId].kind # "v2" \/ ~connector[sessionId].topic
       THEN Thrown(NotEstablishedMsg)
       ELSE [request |-> TRUE, thrown |-> "none", wraps |-> "",
             T |-> [connection.T EXCEPT !.pendingTransactions =
                      Put(@, sessionId,
                          [id |-> txId, status |-> "pending",
                           txHash |-> Null, error |-> ""])],
             sessionId |-> sessionId]

\* sendTransaction from its start to the pending record of txId (request),
\* or to the error its checks make it throw
sendTransactionBegin(T, telegramUserId, txId) ==
  LET connection == checkConnection(T, telegramUserId)
      Thrown(message) ==
        LET e == sendTransactionCatch(connection.T, telegramUserId, message)
        IN [request |-> FALSE, thrown |-> e.thrown, wraps |-> e.wraps,
            T |-> e.T, sessionId |-> Null]
  IN IF ~connection.ret.connected
     THEN Thrown(NotConnectedMsg)
     ELSE LET sessionId == connection.T.userSessions[telegramUserId] IN
       IF connector[sessionId].kind # "v2" \/ ~connector[sessionId].topic
       THEN Thrown(NotEstablishedMsg)
       ELSE [request |-> TRUE, thrown |-> "none", wraps |-> "",
             T |-> [connection.T EXCEPT !.pendingTransactions =
                      Put(@, sessionId,
                          [id |-> txId, status |-> "pending",
                           txHash |-> Null, error |-> ""])],
             sessionId |-> sessionId]

\* the continuation of the request runs whenever the wallet answers, whether
\* or not the timer has already settled the race
RacePending_IgnoresTimer(s) == s.reqOpen

\* Promise.race([requestPromise, timeoutPromise]) is still pending
RacePending(s) == s.pc = "race"

\* the hash the wallet returns for the request of txId t
TxHash(t) == t

\* ------------------------------------------------------- pairing URIs
\* A string is the sequence of its characters.
\* the hex digits the sampled identifiers and keys are made of
SampleDigits == {"0", "7", "c"}

\* uuidv4(): 8-4-4-4-12 hex digits, version nibble 4, variant nibble 8..b
Uuid(h) == [i \in 1..36 |-> IF i \in {9, 14, 19, 24} THEN "-"
                            ELSE IF i = 15 THEN "4"
                            ELSE IF i = 20 THEN "a"
                            ELSE h]

\* crypto.randomBytes(32).toString('hex')
HexKey(h) == [i \in 1..64 |-> h]

\* the concatenation of a sequence of strings
RECURSIVE Flatten(_)
Flatten(ss) ==
  IF Len(ss) = 0 THEN <<>>
  ELSE IF Len(ss) = 1 THEN ss[1]
  ELSE LET m == Len(ss) \div 2
       IN Flatten(SubSeq(ss, 1, m)) \o Flatten(SubSeq(ss, m + 1, Len(ss)))

\* String.prototype.indexOf(p, from) + 1, with 1-based from; 0 when absent
IndexOf(str, p, from) ==
  LET at == {i \in from..(Len(str) - Len(p) + 1) :
               SubSeq(str, i, i + Len(p) - 1) = p}
  IN IF at = {} THEN 0 ELSE CHOOSE i \in at : \A j \in at : i <= j

StartsWith(str, p) == Len(str) >= Len(p) /\ SubSeq(str, 1, Len(p)) = p

StrIncludes(str, p) == IndexOf(str, p, 1) # 0

\* String.prototype.split(sep) for a non-empty separator
RECURSIVE Split(_, _)
Split(str, sep) ==
  LET i == IndexOf(str, sep, 1) IN
  IF i = 0 THEN <<str>>
  ELSE <<SubSeq(str, 1, i - 1)>>
       \o Split(SubSeq(str, i + Len(sep), Len(str)), sep)

\* String.prototype.replace(p, r) for a string pattern: the first occurrence
Replace(str, p, r) ==
  LET i == IndexOf(str, p, 1) IN
  IF i = 0 THEN str
  ELSE SubSeq(str, 1, i - 1) \o r \o SubSeq(str, i + Len(p), Len(str))

\* the characters encodeURIComponent escapes, of those that occur, with
\* their escapes
Escapes == { <<":", <<"%", "3", "A">> >>, <<"/", <<"%", "2", "F">> >>,
             <<"?", <<"%", "3", "F">> >>, <<"@", <<"%", "4", "0">> >>,
             <<"&", <<"%", "2", "6">> >>, <<"=", <<"%", "3", "D">> >>,
             <<"%", <<"%", "2", "5">> >>, <<"+", <<"%", "2", "B">> >> }

encodeURIComponent(str) ==
  Flatten([i \in 1..Len(str) |->
             IF \E e \in Escapes : e[1] = str[i]
             THEN (CHOOSE e \in Escapes : e[1] = str[i])[2]
             ELSE <<str[i]>>])

\* the decoding URLSearchParams applies to a name or a value: '+' is a
\* space, %XX is the character it escapes (no character of an escape after
\* its '%' is a '%', so the escapes of a string do not overlap)
FormDecode(str) ==
  LET EscapeAt(i) == /\ i >= 1
                     /\ i + 2 <= Len(str)
                     /\ \E e \in Escapes : e[2] = SubSeq(str, i, i + 2)
  IN Flatten([i \in 1..Len(str) |->
                IF EscapeAt(i)
                THEN <<(CHOOSE e \in Escapes :
                          e[2] = SubSeq(str, i, i + 2))[1]>>
                ELSE IF EscapeAt(i - 1) \/ EscapeAt(i - 2) THEN <<>>
                ELSE IF str[i] = "+" THEN <<" ">>
                ELSE <<str[i]>>])

\* new URLSearchParams(params): the list of its (name, value) pairs
URLSearchParams(params) ==
  LET body == IF StartsWith(params, <<"?">>)
              THEN SubSeq(params, 2, Len(params)) ELSE params
      pieces == SelectSeq(Split(body, <<"&">>), LAMBDA x : x # <<>>)
      Pair(x) == LET i == IndexOf(x, <<"=">>, 1) IN
                 IF i = 0 THEN <<FormDecode(x), <<>> >>
                 ELSE <<FormDecode(SubSeq(x, 1, i - 1)),
                        FormDecode(SubSeq(x, i + 1, Len(x)))>>
  IN [i \in 1..Len(pieces) |-> Pair(pieces[i])]

\* URLSearchParams.prototype.get(name): the first value, or null (<<>> here:
\* the validator treats null and the empty string alike)
ParamGet(list, name) ==
  IF \E i \in 1..Len(list) : list[i][1] = name
  THEN list[CHOOSE i \in 1..Len(list) :
              /\ list[i][1] = name
              /\ \A j \in 1..(i - 1) : list[j][1] # name][2]
  ELSE <<>>

BridgeURL == <<"h", "t", "t", "p", "s", ":", "/", "/", "b", "r", "i", "d",
    "g", "e", ".", "w", "a", "l", "l", "e", "t", "c", "o", "n", "n", "e",
    "c", "t", ".", "o", "r", "g">>
BridgeHost == <<"b", "r", "i", "d", "g", "e", ".", "w", "a", "l", "l", "e",
    "t", "c", "o", "n", "n", "e", "c", "t", ".", "o", "r", "g">>

\* generateWalletConnectURI with a bridge that is not the one the validator
\* knows
generateWalletConnectURI_OtherBridge(sessionId, key) ==
  <<"w", "c", ":">> \o sessionId \o <<"@", "1">>
  \o <<"?", "b", "r", "i", "d", "g", "e", "=">>
  \o encodeURIComponent(<<"h", "t", "t", "p", "s", ":", "/", "/", "r", "e",
    "l", "a", "y", ".", "w", "a", "l", "l", "e", "t", "c", "o", "n", "n",
    "e", "c", "t", ".", "c", "o", "m">>)
  \o <<"&", "k", "e", "y", "=">> \o key

\* the uri of generateWalletConnectURI, for the session id and the key it
\* drew
generateWalletConnectURI(sessionId, key) ==
  <<"w", "c", ":">> \o sessionId \o <<"@", "1">>
  \o <<"?", "b", "r", "i", "d", "g", "e", "=">>
  \o encodeURIComponent(BridgeURL)
  \o <<"&", "k", "e", "y", "=">> \o key

validateWalletConnectURI(uri) ==
  IF uri = <<>> \/ ~StartsWith(uri, <<"w", "c", ":">>) THEN FALSE
  ELSE LET parts == Split(uri, <<"?">>) IN
    IF Len(parts) # 2 THEN FALSE
    ELSE LET baseParts == Split(parts[1], <<"@">>) IN
      IF Len(baseParts) # 2 THEN FALSE
      ELSE LET sessionId == Replace(baseParts[1], <<"w", "c", ":">>, <<>>)
               version == baseParts[2]
               urlParams == URLSearchParams(parts[2])
               bridge == ParamGet(urlParams, <<"b", "r", "i", "d", "g", "e">>)
               key == ParamGet(urlParams, <<"k", "e", "y">>)
           IN IF sessionId = <<>> \/ Len(sessionId) < 10 THEN FALSE
              ELSE IF version = <<>> \/ (version # <<"1">> /\ version #
    <<"2">>)
              THEN FALSE
              ELSE IF version = <<"1">>
                      /\ (\/ bridge = <<>>
                          \/ ~StrIncludes(bridge, BridgeHost)
                          \/ key = <<>>
                          \/ Len(key) < 20)
              THEN FALSE
              ELSE TRUE

\* ------------------------------------------------------------------ actions
InitCommon ==
  /\ signClient = FALSE
  /\ hasProjectId \in BOOLEAN
  /\ sessions = <<>>
  /\ userSessions = <<>>
  /\ pendingTransactions = <<>>
  /\ connector = [k \in SIDs |-> NoConnector]
  /\ approval = [k \in SIDs |-> "none"]
  /\ create = [k \in SIDs |-> NoCreate]
  /\ hc = [u \in Users |-> 0]
  /\ discs = {}
  /\ notifs = {}
  /\ notified = [k \in SIDs |-> 0]
  /\ send = [t \in TXIDs |-> NoSend]
  /\ refused = NoRefusal

\* the bot constructed: its listener is registered (part_001:18)
Init == InitCommon /\ listener = TRUE

\* the service constructed on its own
InitService == InitCommon /\ listener = FALSE

InitializeSignClient ==
  /\ ~signClient
  /\ signClient' = TRUE
  /\ UNCHANGED <<hasProjectId, listener, sessions, userSessions,
                 pendingTransactions, connector, approval, create, hc, discs,
                 notifs, notified, send, refused>>

\* the clock advances by one tick: every stored lastActivity is one tick older
Tick ==
  /\ \E k \in DOMAIN sessions : ~Expired(sessions[k])
  /\ sessions' = [k \in DOMAIN sessions |->
                   [sessions[k] EXCEPT !.idle =
                      IF @ > IdleWindow THEN @ ELSE @ + 1]]
  /\ UNCHANGED <<env, userSessions, pendingTransactions, connector, approval,
                 create, hc, discs, notifs, notified, send, refused>>

\* any caller of checkConnection that does nothing else to the service
CheckConnection(u) ==
  /\ SetTables(checkConnection(Tables, u).T)
  /\ UNCHANGED <<env, connector, approval, create, hc, discs, notifs,
                 notified, send, refused>>

\* the interval of startCleanupTimer
CleanupTimer ==
  /\ SetTables(cleanupExpiredSessions(Tables))
  /\ UNCHANGED <<env, connector, approval, create, hc, discs, notifs,
                 notified, send, refused>>

\* handleConnect up to its await on sendMessage('Creating wallet connection')
HandleConnect(u) ==
  LET c == checkConnection(Tables, u) IN
  /\ Cardinality(Allocated) + SumOver(hc, Users) < MaxSessions
  /\ ~c.ret.connected
  /\ SetTables(c.T)
  /\ hc' = [hc EXCEPT ![u] = @ + 1]
  /\ UNCHANGED <<env, connector, approval, create, discs, notifs, notified,
                 send, refused>>

\* handleConnect calls createWalletConnectSession
CreateStart(u) ==
  /\ hc[u] > 0
  /\ hc' = [hc EXCEPT ![u] = @ - 1]
  /\ createWalletConnectSession(NextId, u)
  /\ UNCHANGED <<env, discs, notifs, notified, send, refused>>

\* createWalletConnectSession called on the service directly
CallCreate(u) ==
  /\ Allocated # SIDs
  /\ createWalletConnectSession(NextId, u)
  /\ UNCHANGED <<env, hc, discs, notifs, notified, send, refused>>

\* signClient.disconnect of the old session throws
CreateDisconnectFails(k) ==
  /\ create[k].pc = "disconnect"
  /\ ~create[k].discErr
  /\ create' = [create EXCEPT ![k].discErr = TRUE]
  /\ UNCHANGED <<env, sessions, userSessions, pendingTransactions, connector,
                 approval, hc, discs, notifs, notified, send, refused>>

\* a disconnectWallet whose inner catch rethrows: the create call that
\* awaits it goes on without the cleanup
CreateDisconnected_FailurePropagates(k) ==
  /\ create[k].pc = "disconnect"
  /\ ConnectPhase(k, create[k].user, create[k].old,
                  IF create[k].discErr THEN Tables
                  ELSE cleanupSession(Tables, create[k].old))
  /\ UNCHANGED <<env, hc, discs, notifs, notified, send, refused>>

\* disconnectWallet of the old session goes on after signClient.disconnect
\* (resolved, or thrown and caught), and the create call after it
CreateDisconnected(k) ==
  /\ create[k].pc = "disconnect"
  /\ ConnectPhase(k, create[k].user, create[k].old,
                  cleanupSession(Tables, create[k].old))
  /\ UNCHANGED <<env, hc, discs, notifs, notified, send, refused>>

\* signClient.connect settles: resolved with {uri, approval}, or thrown
CreateConnected(k) ==
  /\ create[k].pc = "connect"
  /\ \E ok \in BOOLEAN :
       StoreSession(k, create[k].user, create[k].old, Tables,
                    IF ok THEN V2Connector ELSE ManualConnector,
                    IF ok THEN "pending" ELSE "none")
  /\ UNCHANGED <<env, hc, discs, notifs, notified, send, refused>>

\* handleConnect after sendMobile/DesktopWalletOptions: poller and timer start
ConnectOptionsSent(k) ==
  /\ create[k].pc = "options"
  /\ \E ok \in BOOLEAN :
       create' = [create EXCEPT ![k] =
                   [@ EXCEPT !.pc = "done",
                             !.poll = IF ok THEN "on" ELSE "off",
                             !.timer = ok]]
  /\ UNCHANGED <<env, sessions, userSessions, pendingTransactions, connector,
                 approval, hc, discs, notifs, notified, send, refused>>

\* an approval handler that takes the chain of the payload as it is
ApprovalResolve_TrustsPayload(k) ==
  /\ approval[k] = "pending"
  /\ \E accounts \in {<<>>, <<WalletAddr(k)>>}, chain \in Chains \cup {Null} :
       ApprovalCompletes(k, chain,
                         [connector[k] EXCEPT !.connected = TRUE,
                                              !.topic = TRUE,
                                              !.accounts = accounts])
  /\ UNCHANGED <<env, create, hc, discs, send, refused>>

\* the approval future resolves with the wallet's session
ApprovalResolve(k) ==
  /\ approval[k] = "pending"
  /\ \E accounts \in {<<>>, <<WalletAddr(k)>>}, chain \in Chains \cup {Null} :
       LET conn == [connector[k] EXCEPT !.connected = TRUE, !.topic = TRUE,
                                       !.accounts = accounts]
       IN IF chain = Null \/ chain # RequiredChain
          THEN /\ connector' = [connector EXCEPT ![k] = conn]
               /\ approval' = [approval EXCEPT ![k] = "query"]
               /\ UNCHANGED <<sessions, userSessions, pendingTransactions,
                              notifs, notified>>
          ELSE ApprovalCompletes(k, chain, conn)
  /\ UNCHANGED <<env, create, hc, discs, send, refused>>

\* the eth_chainId request of the approval handler is answered
ChainQueryReturn(k) ==
  /\ approval[k] = "query"
  /\ \E chainId \in Chains : ApprovalCompletes(k, chainId, connector[k])
  /\ UNCHANGED <<env, create, hc, discs, send, refused>>

\* the eth_chainId request of the approval handler throws
ChainQueryFails(k) ==
  /\ approval[k] = "query"
  /\ approval' = [approval EXCEPT ![k] = "fallback"]
  /\ UNCHANGED <<env, sessions, userSessions, pendingTransactions, connector,
                 create, hc, discs, notifs, notified, send, refused>>

\* the handler goes on from its catch block with chainId = config.chainId
ChainQueryFallback(k) ==
  /\ approval[k] = "fallback"
  /\ ApprovalCompletes(k, RequiredChain, connector[k])
  /\ UNCHANGED <<env, create, hc, discs, send, refused>>

\* a catch block that also drops the session of the declined proposal
ApprovalReject_DropsSession(k) ==
  /\ approval[k] = "pending"
  /\ approval' = [approval EXCEPT ![k] = "rejected"]
  /\ connector' = [connector EXCEPT ![k].emitted = "disconnect"]
  /\ SetTables(cleanupSession(Tables, k))
  /\ UNCHANGED <<env, create, hc, discs, notifs, notified, send, refused>>

\* the approval future rejects: the catch block of the approval handler
ApprovalReject(k) ==
  /\ approval[k] = "pending"
  /\ approval' = [approval EXCEPT ![k] = "rejected"]
  /\ connector' = [connector EXCEPT ![k].emitted = "disconnect"]
  /\ UNCHANGED <<env, sessions, userSessions, pendingTransactions,
                 create, hc, discs, notifs, notified, send, refused>>

\* a continuation that stores the session it marks connected
NotifyContinue_Restores(n) ==
  /\ n \in notifs
  /\ notifs' = notifs \ {n}
  /\ sessions' = Put(sessions, n.sessionId,
                     [NewSession(CHOOSE u \in Users : TRUE)
                        EXCEPT !.connected = TRUE, !.address = n.address,
                               !.chainId = n.chainId])
  /\ UNCHANGED <<env, userSessions, pendingTransactions, connector, approval,
                 create, hc, discs, notified, send, refused>>

\* sendMessage of handleWalletConnected settles
NotifyContinue(n) ==
  /\ n \in notifs
  /\ notifs' = notifs \ {n}
  /\ \E ok \in BOOLEAN :
       IF ok /\ n.sessionId \in DOMAIN sessions
       THEN sessions' = [sessions EXCEPT ![n.sessionId] =
                          [@ EXCEPT !.connected = TRUE,
                                    !.address = n.address,
                                    !.chainId = n.chainId,
                                    !.idle = Fresh]]
       ELSE UNCHANGED sessions
  /\ UNCHANGED <<env, userSessions, pendingTransactions, connector, approval,
                 create, hc, discs, notified, send, refused>>

\* one tick of the interval of startConnectionPolling
PollTick(k) ==
  LET u == create[k].user
      c == checkConnection(Tables, u)
      h == handleWalletConnected(c.T, notifs, notified, u, c.ret.address,
                                c.ret.chainId, c.ret.sessionId)
  IN /\ create[k].poll = "on"
     /\ IF c.ret.connected
        THEN /\ create' = [create EXCEPT ![k].poll = "connected"]
             /\ SetTables(h.T)
             /\ notifs' = h.notifs
             /\ notified' = h.notified
        ELSE /\ SetTables(c.T)
             /\ UNCHANGED <<create, notifs, notified>>
     /\ UNCHANGED <<env, connector, approval, hc, discs, send, refused>>

\* the tick of the poller on which pollCount reaches maxPolls: 36 polls of
\* 10 seconds, so after the 5-minute timer of the same handleConnect
PollGiveUp(k) ==
  /\ create[k].poll = "on"
  /\ ~create[k].timer
  /\ ~checkConnection(Tables, create[k].user).ret.connected
  /\ create' = [create EXCEPT ![k].poll = "gaveup"]
  /\ SetTables(checkConnection(Tables, create[k].user).T)
  /\ UNCHANGED <<env, connector, approval, hc, discs, notifs, notified, send, refused>>

\* a timer callback that sends nothing
ConnectTimer_Silent(k) ==
  /\ create[k].timer
  /\ create' = [create EXCEPT ![k].timer = FALSE]
  /\ SetTables(checkConnection(Tables, create[k].user).T)
  /\ UNCHANGED <<env, connector, approval, hc, discs, notifs, notified, send,
                 refused>>

\* the 5-minute timer of handleConnect
ConnectTimer(k) ==
  /\ create[k].timer
  /\ create' = [create EXCEPT
                 ![k].timer = FALSE,
                 ![k].timedOut =
                   ~checkConnection(Tables, create[k].user).ret.connected]
  /\ SetTables(checkConnection(Tables, create[k].user).T)
  /\ UNCHANGED <<env, connector, approval, hc, discs, notifs, notified, send, refused>>

\* disconnectWallet up to its await on the wallet
Disconnect(u) ==
  /\ u \in DOMAIN userSessions
  /\ LET sessionId == userSessions[u] IN
       IF AwaitsWalletDisconnect(Tables, sessionId)
       THEN /\ discs' = discs \cup {[user |-> u, sessionId |-> sessionId]}
            /\ UNCHANGED <<sessions, userSessions, pendingTransactions>>
       ELSE /\ SetTables(cleanupSession(Tables, sessionId))
            /\ UNCHANGED discs
  /\ UNCHANGED <<env, connector, approval, create, hc, notifs, notified, send, refused>>

\* disconnectWallet goes on after signClient.disconnect (resolved, or thrown
\* and caught)
DisconnectFinish(d) ==
  /\ d \in discs
  /\ discs' = discs \ {d}
  /\ SetTables(cleanupSession(Tables, d.sessionId))
  /\ UNCHANGED <<env, connector, approval, create, hc, notifs, notified, send, refused>>

\* sendTransaction up to its await on Promise.race, or to its failure
SendStart(u) ==
  LET b == sendTransactionBegin(Tables, u,
                                IF Sent # TXIDs THEN NextTx ELSE Null)
  IN /\ b.request => Sent # TXIDs
     /\ SetTables(b.T)
     /\ IF b.request
        THEN /\ send' = [send EXCEPT ![NextTx] =
                          [pc |-> "race", user |-> u,
                           sessionId |-> b.sessionId, result |-> "none",
                           txHash |-> Null, reqOpen |-> TRUE]]
             /\ UNCHANGED refused
        ELSE /\ refused' = [user |-> u,
                            indexed |-> IF u \in DOMAIN b.T.userSessions
                                        THEN b.T.userSessions[u] ELSE Null,
                            thrown |-> b.thrown, wraps |-> b.wraps]
             /\ UNCHANGED send
     /\ UNCHANGED <<env, connector, approval, create, hc, discs, notifs,
                    notified>>

\* the wallet answers the signing request of txId t
WalletResponds(t) ==
  /\ send[t].reqOpen
  /\ \E answer \in {"hash"} \cup WalletErrors :
       IF RacePending(send[t])
       THEN IF answer = "hash"
            THEN /\ SetTables(sendTransactionResolved(Tables, send[t].sessionId,
                                                      TxHash(t)))
                 /\ send' = [send EXCEPT ![t] =
                              [@ EXCEPT !.pc = "settled", !.result = "success",
                                        !.txHash = TxHash(t),
                                        !.reqOpen = FALSE]]
            ELSE LET e == sendTransactionCatch(Tables, send[t].user, answer)
                 IN /\ SetTables(e.T)
                    /\ send' = [send EXCEPT ![t] =
                                 [@ EXCEPT !.pc = "settled",
                                           !.result = e.thrown,
                                           !.reqOpen = FALSE]]
       ELSE /\ send' = [send EXCEPT ![t].reqOpen = FALSE]
            /\ UNCHANGED <<sessions, userSessions, pendingTransactions>>
  /\ UNCHANGED <<env, connector, approval, create, hc, discs, notifs,
                 notified, refused>>

\* a sendTransaction that awaits requestPromise alone: the timer fires and
\* nobody listens
SendTimeout_RequestOnly(t) ==
  /\ RacePending(send[t])
  /\ UNCHANGED vars

\* the 60-second timer of sendTransaction fires before the wallet answered
SendTimeout(t) ==
  /\ RacePending(send[t])
  /\ LET e == sendTransactionCatch(Tables, send[t].user, RaceTimeoutMsg)
     IN /\ SetTables(e.T)
        /\ send' = [send EXCEPT ![t] = [@ EXCEPT !.pc = "settled",
                                                 !.result = e.thrown]]
  /\ UNCHANGED <<env, connector, approval, create, hc, discs, notifs,
                 notified, refused>>

\* time passing and the sweep it triggers
Clock ==
  \/ Tick
  \/ CleanupTimer

Lifecycle ==
  \/ InitializeSignClient
  \/ \E u \in Users : CheckConnection(u)
  \/ \E k \in SIDs : CreateDisconnectFails(k)
  \/ \E k \in SIDs : CreateDisconnected(k)
  \/ \E k \in SIDs : CreateConnected(k)
  \/ \E k \in SIDs : ApprovalResolve(k)
  \/ \E k \in SIDs : ChainQueryReturn(k)
  \/ \E k \in SIDs : ChainQueryFails(k)
  \/ \E k \in SIDs : ChainQueryFallback(k)
  \/ \E k \in SIDs : ApprovalReject(k)
  \/ \E u \in Users : Disconnect(u)
  \/ \E d \in discs : DisconnectFinish(d)

Registry == Clock \/ Lifecycle

Relay ==
  \/ \E u \in Users : SendStart(u)
  \/ \E t \in TXIDs : WalletResponds(t)
  \/ \E t \in TXIDs : SendTimeout(t)

Chat ==
  \/ \E u \in Users : HandleConnect(u)
  \/ \E u \in Users : CreateStart(u)
  \/ \E k \in SIDs : ConnectOptionsSent(k)
  \/ \E n \in notifs : NotifyContinue(n)
  \/ \E k \in SIDs : PollTick(k)
  \/ \E k \in SIDs : PollGiveUp(k)
  \/ \E k \in SIDs : ConnectTimer(k)

Next == Registry \/ Chat

Spec == Init /\ [][Next]_vars

NextService == Registry \/ Relay \/ \E u \in Users : CallCreate(u)

SpecService == InitService /\ [][NextService]_vars

\* the bot with the commands that send transactions, within one idle window
\* and up to the moment the wallet options are on their way to the chat
NextSigning ==
  \/ Lifecycle
  \/ Relay
  \/ \E u \in Users : HandleConnect(u)
  \/ \E u \in Users : CreateStart(u)
  \/ \E n \in notifs : NotifyContinue(n)

SpecSigning == Init /\ [][NextSigning]_vars

\* the bot's sessions when no transaction is sent and neither poller nor
\* connection timer looks a session up, while time keeps passing and the
\* interval of startCleanupTimer keeps firing
NextSweep ==
  \/ Registry
  \/ \E u \in Users : HandleConnect(u)
  \/ \E u \in Users : CreateStart(u)
  \/ \E n \in notifs : NotifyContinue(n)

SpecSweep ==
  Init /\ [][NextSweep]_vars /\ WF_vars(Tick) /\ WF_vars(CleanupTimer)

\* the service within one idle window, every 60-second timer of a send that
\* is still racing eventually firing
NextRace == Lifecycle \/ Relay \/ \E u \in Users : CallCreate(u)

SpecRace ==
  /\ InitService
  /\ [][NextRace]_vars
  /\ \A t \in TXIDs : WF_vars(SendTimeout(t))

\* ================================================================== claims

\* ---- C1 ----------------------------------------------------------------
\* C1: for every session, the 'Wallet Connected' message is sent at most
\* once, whatever the order of the walletConnected event and the poll ticks
\* that observe the session connected.
C1_NotifiedAtMostOnce == \A k \in SIDs : notified[k] <= 1

\* a poller observed connected = true for a session whose approval event had
\* already sent the notification
C1_Witness ==
  \E k \in DOMAIN sessions :
    /\ approval[k] = "resolved"
    /\ create[k].poll = "connected"
    /\ userSessions[sessions[k].telegramUserId] = k
    /\ sessions[k].notificationSent
    /\ notified[k] = 1

\* ---- C3 ----------------------------------------------------------------
\* C3: in every reachable state at most one stored session references a
\* given userId.
C3_OneSessionPerUser ==
  \A a, b \in DOMAIN sessions :
    sessions[a].telegramUserId = sessions[b].telegramUserId => a = b

\* ---- C4 ----------------------------------------------------------------
getStats ==
  [totalSessions |-> Cardinality(DOMAIN sessions),
   connectedSessions |-> Cardinality({k \in DOMAIN sessions : sessions[k].connected}),
   pendingTransactions |-> Cardinality(DOMAIN pendingTransactions),
   activeSessions |-> Cardinality(DOMAIN userSessions)]

\* C4: the userId index and the session store are consistent in both
\* directions, and getStats reports totalSessions = activeSessions.
C4_IndexConsistent ==
  /\ \A u \in DOMAIN userSessions :
       /\ userSessions[u] \in DOMAIN sessions
       /\ sessions[userSessions[u]].telegramUserId = u
  /\ \A k \in DOMAIN sessions :
       /\ sessions[k].telegramUserId \in DOMAIN userSessions
       /\ userSessions[sessions[k].telegramUserId] = k
  /\ getStats.totalSessions = getStats.activeSessions

\* ---- C6 ----------------------------------------------------------------
Returned(k) == create[k].pc \in {"options", "done"}

\* C6: once two createWalletConnectSession calls of one user have both
\* returned, the session of the one that started first is no longer stored
\* and the index, if it has the user, points to the session of the one that
\* started last.
C6_LastCreateWins ==
  \A k1, k2 \in SIDs :
    ( /\ k1 < k2
      /\ Returned(k1) /\ Returned(k2)
      /\ create[k1].user = create[k2].user
      /\ \A k3 \in SIDs : k3 > k2 => create[k3].user # create[k2].user )
    => /\ k1 \notin DOMAIN sessions
       /\ create[k2].user \in DOMAIN userSessions
            => userSessions[create[k2].user] = k2

\* ---- C8 ----------------------------------------------------------------
\* C8: a stored session whose approval resolved with an account has had
\* exactly one notification, is connected, carries the first account and the
\* chain of its own approval, and has notificationSent set.
C8_ConvergedState ==
  \A k \in DOMAIN sessions :
    (approval[k] = "resolved" /\ connector[k].accounts # <<>>)
    => /\ notified[k] = 1
       /\ sessions[k].connected
       /\ sessions[k].address = connector[k].accounts[1]
       /\ sessions[k].chainId = connector[k].chainId
       /\ sessions[k].notificationSent

\* ---- C9 ----------------------------------------------------------------
\* C9: when a disconnectWallet(userId) that found a session completes, a
\* checkConnection(userId) made right then returns 'No session found'.
C9_DisconnectThenNoSession ==
  [][\A d \in discs :
       d \notin discs'
       => checkConnection(Tables, d.user)'.ret = NotConnected("No session found")
    ]_vars

\* ---- C2 ----------------------------------------------------------------
\* C2: once the caller of sendTransaction has received the timeout failure,
\* that stays its only outcome, and the step in which the wallet's late
\* answer arrives changes no pending-transaction record and no session
\* (lastActivity included).
C2_LateAnswerDiscarded ==
  [][\A t \in TXIDs :
       send[t].result = "timeout"
       => /\ send'[t].result = "timeout"
          /\ (send[t].reqOpen /\ ~send'[t].reqOpen)
               => /\ pendingTransactions' = pendingTransactions
                  /\ sessions' = sessions
    ]_vars

\* the wallet answered after the timer had failed the call, while the
\* request's own record was still in the table
C2_Witness ==
  \E t \in TXIDs :
    /\ send[t].result = "timeout"
    /\ ~send[t].reqOpen
    /\ send[t].sessionId \in DOMAIN pendingTransactions
    /\ pendingTransactions[send[t].sessionId].id = t

\* ---- C5 ----------------------------------------------------------------
\* C5: when a createWalletConnectSession call that found an earlier session
\* of its user indexed returns, and no third call was made for that user,
\* then the user's only stored session is the one of this call, the index
\* points to it, and the earlier session and its pending transaction are
\* gone.
C5_SecondCreateReplaces ==
  [][\A k \in SIDs :
       ( /\ ~Returned(k)
         /\ Returned(k)'
         /\ create'[k].old # Null
         /\ \A j \in SIDs \ {k, create'[k].old} :
              create'[j].user # create'[k].user )
       => /\ {s \in DOMAIN sessions' :
                sessions'[s].telegramUserId = create'[k].user} = {k}
          /\ create'[k].user \in DOMAIN userSessions'
          /\ userSessions'[create'[k].user] = k
          /\ create'[k].old \notin DOMAIN sessions'
          /\ create'[k].old \notin DOMAIN pendingTransactions'
    ]_vars

\* a second call has returned whose predecessor had a pending transaction
C5_Witness ==
  \E k \in DOMAIN sessions :
    /\ Returned(k)
    /\ create[k].old # Null
    /\ \E t \in TXIDs : send[t].pc # "free" /\ send[t].sessionId = create[k].old

\* ---- C7 ----------------------------------------------------------------
IndexedExpired(u) ==
  /\ u \in DOMAIN userSessions
  /\ userSessions[u] \in DOMAIN sessions
  /\ Expired(sessions[userSessions[u]])

\* C7: whenever the session indexed for a user has been idle for longer than
\* the idle window, checkConnection for that user returns connected:false
\* with reason 'Session timeout' and leaves the session, its index entry and
\* its pending transaction removed, swept or not.
C7_ExpiredUnreachable ==
  \A u \in Users :
    IndexedExpired(u)
    => LET c == checkConnection(Tables, u) IN
       /\ c.ret = NotConnected("Session timeout")
       /\ userSessions[u] \notin DOMAIN c.T.sessions
       /\ u \notin DOMAIN c.T.userSessions
       /\ userSessions[u] \notin DOMAIN c.T.pendingTransactions

\* an expired, connected session with a pending transaction that no sweep
\* has removed
C7_Witness ==
  \E u \in Users :
    /\ IndexedExpired(u)
    /\ sessions[userSessions[u]].connected
    /\ userSessions[u] \in DOMAIN pendingTransactions

\* ---- C10 ---------------------------------------------------------------
\* C10: once a sendTransaction call that created its pending record has
\* failed, that record, while it is the session's record, has status
\* 'failed' and carries the error message.
C10_FailureMarksRecord ==
  \A t \in TXIDs :
    ( /\ send[t].pc = "settled"
      /\ send[t].result # "success"
      /\ send[t].sessionId \in DOMAIN pendingTransactions
      /\ pendingTransactions[send[t].sessionId].id = t )
    => /\ pendingTransactions[send[t].sessionId].status = "failed"
       /\ pendingTransactions[send[t].sessionId].error # ""

\* ---- C11 ---------------------------------------------------------------
\* C11: in the step in which the wallet's hash wins the race of request t,
\* the record of t, when it is still the one in its session's slot, gets
\* status 'sent' and that hash, the session gets lastActivity = now, and
\* the call returns success with that hash.
C11_SuccessRecorded ==
  [][\A t \in TXIDs :
       (RacePending(send[t]) /\ send'[t].result = "success")
       => LET sid == send[t].sessionId IN
          /\ ( /\ sid \in DOMAIN pendingTransactions
               /\ pendingTransactions[sid].id = t )
             => /\ sid \in DOMAIN pendingTransactions'
                /\ pendingTransactions'[sid].id = t
                /\ pendingTransactions'[sid].status = "sent"
                /\ pendingTransactions'[sid].txHash = TxHash(t)
          /\ sid \in DOMAIN sessions
             => /\ sid \in DOMAIN sessions'
                /\ sessions'[sid].idle = Fresh
          /\ send'[t].txHash = TxHash(t)
    ]_vars

\* a request answered with a hash after its session had aged, whose record
\* is the one in the slot
C11_Witness ==
  \E t \in TXIDs :
    /\ send[t].result = "success"
    /\ send[t].txHash = TxHash(t)
    /\ send[t].sessionId \in DOMAIN pendingTransactions
    /\ pendingTransactions[send[t].sessionId].id = t
    /\ pendingTransactions[send[t].sessionId].status = "sent"
    /\ sessions[send[t].sessionId].idle = Fresh

C13_NotEstablishedIsConfigError ==
  \A u \in Users :
    LET c == checkConnection(Tables, u) IN
    ( /\ c.ret.connected
      /\ \/ connector[c.ret.sessionId].kind # "v2"
         \/ ~connector[c.ret.sessionId].topic )
    => LET b == sendTransactionBegin(Tables, u, MaxTx) IN
       /\ ~b.request
       /\ b.thrown = "config"

\* ---- C14 ---------------------------------------------------------------
\* C14: a pending-transaction record's status and txHash only ever reflect
\* the outcome of the request whose id the record carries: 'sent' and a
\* hash only when that request returned that hash, 'failed' only when that
\* request failed.
C14_RecordReflectsOwnRequest ==
  \A k \in DOMAIN pendingTransactions :
    LET r == pendingTransactions[k] IN
    /\ r.status = "sent"
         => send[r.id].result = "success" /\ r.txHash = send[r.id].txHash
    /\ r.txHash # Null => r.txHash = TxHash(r.id)
    /\ r.status = "failed"
         => send[r.id].result \notin {"none", "success"}

\* ---- C15 ---------------------------------------------------------------
\* C15: in no reachable state does checkConnection report connected:true
\* for a session whose own approval has not resolved (a manual session has
\* no approval).
C15_ConnectedOnlyAfterApproval ==
  \A u \in Users :
    LET c == checkConnection(Tables, u) IN
    c.ret.connected => approval[c.ret.sessionId] \in {"query", "fallback", "resolved"}

\* ---- C16 ---------------------------------------------------------------
\* C16: while a session whose approval resolved with a first account on the
\* required chain is stored and not idle beyond the window, checkConnection
\* for its user returns connected:true with that account, the required
\* chain and the id of that session.
C16_ApprovedIsReported ==
  \A k \in DOMAIN sessions :
    ( /\ approval[k] = "resolved"
      /\ connector[k].accounts # <<>>
      /\ connector[k].chainId = RequiredChain
      /\ ~Expired(sessions[k]) )
    => checkConnection(Tables, sessions[k].telegramUserId).ret
         = [connected |-> TRUE, address |-> connector[k].accounts[1],
            chainId |-> RequiredChain, sessionId |-> k, reason |-> ""]

\* ---- C17 ---------------------------------------------------------------
\* C17: in the step in which a session's approval rejects, the connector
\* emits 'disconnect', no walletConnected notification is started or sent,
\* and the session store and the user index are left as they were.
C17_RejectLeavesSession ==
  [][\A k \in SIDs :
       (approval[k] = "pending" /\ approval'[k] = "rejected")
       => /\ connector'[k].emitted = "disconnect"
          /\ notifs' = notifs
          /\ notified' = notified
          /\ sessions' = sessions
          /\ userSessions' = userSessions
    ]_vars

\* a stored, unconnected session whose approval was rejected
C17_Witness ==
  \E k \in DOMAIN sessions :
    /\ approval[k] = "rejected"
    /\ connector[k].emitted = "disconnect"
    /\ ~sessions[k].connected
    /\ sessions[k].address = Null

\* ---- C18 ---------------------------------------------------------------
\* C18: when the 5-minute timer of a /connect fires and the approval of the
\* session it created has not resolved, the 'Connection Timeout' message is
\* sent and checkConnection for the user returns connected:false.
C18_TimeoutAfterWindow ==
  [][\A k \in SIDs :
       ( /\ create[k].timer /\ ~create'[k].timer
         /\ approval[k] \notin {"query", "fallback", "resolved"} )
       => /\ create'[k].timedOut
          /\ ~checkConnection(Tables, create[k].user)'.ret.connected
    ]_vars

\* C18 (amended): when the 5-minute timer of a /connect fires and the
\* approval of no session created for that user has resolved, the
\* 'Connection Timeout' message is sent and checkConnection for the user
\* returns connected:false.
C18_TimeoutWhenNoneApproved ==
  [][\A k \in SIDs :
       ( /\ create[k].timer /\ ~create'[k].timer
         /\ \A j \in SIDs :
              create[j].user = create[k].user
              => approval[j] \notin {"query", "fallback", "resolved"} )
       => /\ create'[k].timedOut
          /\ ~checkConnection(Tables, create[k].user)'.ret.connected
    ]_vars

\* the timer of a /connect fired while its session was stored with its
\* approval still pending
C18_Witness ==
  \E k \in DOMAIN sessions :
    /\ create[k].timedOut
    /\ approval[k] = "pending"
    /\ \A j \in SIDs :
         create[j].user = create[k].user
         => approval[j] \notin {"query", "fallback", "resolved"}

\* ---- C19 ---------------------------------------------------------------
\* C19: checkConnection on a stored, non-expired session whose approval has
\* not completed returns no address and no chainId.
C19_AbsentUntilApproval ==
  \A u \in Users :
    LET c == checkConnection(Tables, u) IN
    (c.ret.sessionId # Null /\ approval[c.ret.sessionId] # "resolved")
    => c.ret.address = Null /\ c.ret.chainId = Null

\* ---- C20 ---------------------------------------------------------------
\* C20: in the step in which the approval of a stored session completes,
\* the chainId stored in the session is the required chain when the handler
\* took the chain of the payload (which it does only when that is the
\* required chain), and otherwise the chain id that the eth_chainId query
\* returned, which is the chain the connector then carries.
C20_ChainFromPayloadOrQuery ==
  [][\A k \in DOMAIN sessions :
       (approval[k] # "resolved" /\ approval'[k] = "resolved"
        /\ k \in DOMAIN sessions')
       => IF approval[k] = "pending"
          THEN sessions'[k].chainId = RequiredChain
          ELSE /\ approval[k] = "query"
               /\ sessions'[k].chainId = connector'[k].chainId
    ]_vars

\* C20 (amended): in the step in which the approval of a stored session
\* completes with an account, the chainId stored in the session is the
\* required chain when the handler took the chain of the payload; otherwise
\* the chain id the eth_chainId query returned, or the required chain when
\* that query failed.  Without an account the session is left as it was.
C20_ChainFromPayloadQueryOrDefault ==
  [][\A k \in DOMAIN sessions :
       (approval[k] # "resolved" /\ approval'[k] = "resolved"
        /\ k \in DOMAIN sessions')
       => IF connector'[k].accounts = <<>>
          THEN sessions'[k] = sessions[k]
          ELSE /\ sessions'[k].chainId = connector'[k].chainId
               /\ approval[k] \in {"pending", "fallback"}
                    => sessions'[k].chainId = RequiredChain
    ]_vars

\* a session approved with an account whose chain, not the required one,
\* came from the eth_chainId query
C20_Witness ==
  \E k \in DOMAIN sessions :
    /\ approval[k] = "resolved"
    /\ connector[k].accounts # <<>>
    /\ sessions[k].address = connector[k].accounts[1]
    /\ connector[k].chainId = OtherChain
    /\ sessions[k].chainId = OtherChain

\* ---- C21 ---------------------------------------------------------------
\* no table has anything left of session k
TornDown(k) ==
  /\ k \notin DOMAIN sessions
  /\ k \notin DOMAIN pendingTransactions
  /\ \A u \in DOMAIN userSessions : userSessions[u] # k

\* C21: when a disconnectWallet goes on after its wallet-side disconnect call
\* settled (for a direct call: resolved or thrown, the continuation is the
\* same; for a call made by createWalletConnectSession for the session it
\* found indexed: thrown), then the session, an index entry naming it and
\* its pending transaction are gone, and the create call that awaited it
\* continues to its connect phase.
C21_DisconnectBestEffort ==
  [][/\ \A d \in discs : d \notin discs' => TornDown(d.sessionId)'
     /\ \A k \in SIDs :
          ( /\ create[k].pc = "disconnect"
            /\ create[k].discErr
            /\ create'[k].pc # "disconnect" )
          => /\ TornDown(create[k].old)'
             /\ create'[k].pc \in {"connect", "options", "done"}
    ]_vars

\* the wallet-side disconnect failed for a create call that replaces a
\* session which is stored, indexed and has a pending transaction
C21_Witness ==
  \E k \in SIDs :
    /\ create[k].pc = "disconnect"
    /\ create[k].discErr
    /\ create[k].old \in DOMAIN sessions
    /\ create[k].old \in DOMAIN pendingTransactions
    /\ userSessions[create[k].user] = create[k].old

\* ---- C22 ---------------------------------------------------------------
\* C22: applied to the tables of any reachable state, cleanupSession of a
\* stored session leaves tables without the session, without the index
\* entry of its user and without its pending transaction; applied again to
\* the same sessionId it returns the tables unchanged, and so it does for a
\* sessionId that is not stored.
C22_RemoveIdempotent ==
  \A k \in SIDs :
    LET T1 == cleanupSession(Tables, k) IN
    /\ k \in DOMAIN sessions
         => /\ k \notin DOMAIN T1.sessions
            /\ sessions[k].telegramUserId \notin DOMAIN T1.userSessions
            /\ k \notin DOMAIN T1.pendingTransactions
            /\ \A j \in DOMAIN sessions \ {k} :
                 j \in DOMAIN T1.sessions /\ T1.sessions[j] = sessions[j]
    /\ k \notin DOMAIN sessions => T1 = Tables
    /\ cleanupSession(T1, k) = T1

\* a session that is stored, indexed and has a pending transaction, next to
\* a session identifier whose session has already been removed
C22_Witness ==
  \E k, j \in SIDs :
    /\ k \in DOMAIN sessions
    /\ k \in DOMAIN pendingTransactions
    /\ userSessions[sessions[k].telegramUserId] = k
    /\ Returned(j)
    /\ j \notin DOMAIN sessions

\* ---- C23 ---------------------------------------------------------------
\* C23: while time passes and the sweep timer keeps firing, a stored session
\* whose last activity is a full idle window old is eventually removed from
\* the store, or has had its activity refreshed, without any call of
\* checkConnection being required; and in the state a sweep leaves no stored
\* session is older than the idle window.
C23_IdleSwept ==
  /\ \A k \in SIDs :
       (k \in DOMAIN sessions /\ sessions[k].idle >= IdleWindow)
       ~> (k \notin DOMAIN sessions \/ sessions[k].idle = Fresh)
  /\ [][CleanupTimer
          => \A k \in DOMAIN sessions' : ~Expired(sessions'[k])]_vars

\* a session that was never approved and is not indexed for its user, so
\* that no checkConnection can reach it, has outlived the idle window
C23_Witness ==
  \E k \in DOMAIN sessions :
    /\ Expired(sessions[k])
    /\ approval[k] \notin {"query", "fallback", "resolved"}
    /\ ~sessions[k].connected
    /\ sessions[k].telegramUserId \in DOMAIN userSessions
         => userSessions[sessions[k].telegramUserId] # k

\* ---- C24 ---------------------------------------------------------------
\* C24: in every reachable state every pending-transaction record belongs to
\* a session that is in the session store.
C24_PendingOwned == DOMAIN pendingTransactions \subseteq DOMAIN sessions

\* the wallet answered a request with a hash after the session that sent it
\* had been removed, and the tables hold no record for that session
C24_Witness ==
  \E t \in TXIDs :
    /\ send[t].result = "success"
    /\ send[t].sessionId \notin DOMAIN sessions
    /\ send[t].sessionId \notin DOMAIN pendingTransactions

\* ---- C25 ---------------------------------------------------------------
\* C25: in every reachable state a pending-transaction record that carries a
\* txHash has status 'sent'.
C25_HashOnlyWhenSent ==
  \A k \in DOMAIN pendingTransactions :
    pendingTransactions[k].txHash # Null
    => pendingTransactions[k].status = "sent"

\* ---- C26 ---------------------------------------------------------------
\* C26: in every reachable state a stored session has isManual set exactly
\* when the connector its create call built is the one of the manual
\* fallback.
C26_ManualFlagMatchesConnector ==
  \A k \in DOMAIN sessions :
    sessions[k].isManual <=> connector[k].kind = "manual"

\* ---- C27 ---------------------------------------------------------------
\* C27: a step of the chat layer leaves the session, index and
\* pending-transaction tables as the service operation it calls leaves them:
\* the steps of handleConnect, of the poller and of the connection timer as
\* their checkConnection does, and the steps that send the wallet options
\* and that continue handleWalletConnected, which call no operation of the
\* service, unchanged.
C27_ChatWritesNoTable ==
  [][/\ \A u \in Users :
          HandleConnect(u) => Tables' = checkConnection(Tables, u).T
     /\ \A k \in SIDs :
          (PollTick(k) \/ PollGiveUp(k) \/ ConnectTimer(k))
          => Tables' = checkConnection(Tables, create[k].user).T
     /\ \A k \in SIDs : ConnectOptionsSent(k) => Tables' = Tables
     /\ \A n \in notifs : NotifyContinue(n) => Tables' = Tables
    ]_vars

\* ---- C28 ---------------------------------------------------------------
\* C28: every sendTransaction call that reached its race eventually settles,
\* whether or not the wallet answers; the step that settles it is the first
\* of the wallet's answer and the timer, with the outcome of that one; and
\* once settled its outcome does not change.
C28_SendSettles ==
  /\ \A t \in TXIDs : RacePending(send[t]) ~> send[t].pc = "settled"
  /\ [][\A t \in TXIDs :
           /\ (RacePending(send[t]) /\ ~RacePending(send'[t]))
                => /\ send'[t].pc = "settled"
                   /\ \/ SendTimeout(t) /\ send'[t].result = "timeout"
                      \/ /\ WalletResponds(t)
                         /\ send'[t].result
                              \in {"success", "rejected", "config", "failed"}
           /\ send[t].pc = "settled"
                => /\ send'[t].pc = "settled"
                   /\ send'[t].result = send[t].result
      ]_vars

\* a call failed by its timer while the wallet had not answered its request
C28_Witness ==
  \E t \in TXIDs :
    /\ send[t].pc = "settled"
    /\ send[t].result = "timeout"
    /\ send[t].reqOpen

\* ---- C29 ---------------------------------------------------------------
\* the session indexed for u was approved with an account on a chain that is
\* not the required one, and is within its idle window
MismatchedSession(u) ==
  /\ u \in DOMAIN userSessions
  /\ userSessions[u] \in DOMAIN sessions
  /\ approval[userSessions[u]] = "resolved"
  /\ connector[userSessions[u]].accounts # <<>>
  /\ connector[userSessions[u]].chainId # RequiredChain
  /\ ~Expired(sessions[userSessions[u]])

\* C29: for a user whose indexed session was approved on a chain other than
\* the required one, checkConnection returns connected: true with the
\* wallet's chain id, and a sendTransaction called then passes its checks
\* and sends its request to the wallet.
C29_MismatchIsNoFailure ==
  \A u \in Users :
    MismatchedSession(u)
    => /\ checkConnection(Tables, u).ret.connected
       /\ checkConnection(Tables, u).ret.chainId
            = connector[userSessions[u]].chainId
       /\ sendTransactionBegin(Tables, u, Null).request

\* ---- C30 ---------------------------------------------------------------
\* C30: in a step in which createWalletConnectSession stores a session with
\* the connector of the manual fallback, validateWalletConnectURI returns
\* true for the uri generateWalletConnectURI produces, whatever session id
\* and key it drew.
C30_GeneratedURIValidates ==
  [][\A k \in SIDs :
       ( /\ k \notin DOMAIN sessions
         /\ k \in DOMAIN sessions'
         /\ connector'[k].kind = "manual" )
       => \A a, b, c \in SampleDigits :
            validateWalletConnectURI(
              generateWalletConnectURI(Uuid(a), [HexKey(b) EXCEPT ![1] = c]))
    ]_vars

\* a session with the connector of the manual fallback is stored, and a
\* generated uri splits into the parts the validator reads
C30_Witness ==
  /\ \E k \in DOMAIN sessions : connector[k].kind = "manual"
  /\ \A a, b \in SampleDigits :
       LET uri == generateWalletConnectURI(Uuid(a), HexKey(b))
           parts == Split(uri, <<"?">>)
           urlParams == URLSearchParams(parts[2])
       IN /\ Len(uri) = 156
          /\ Split(parts[1], <<"@">>) = << <<"w", "c", ":">> \o Uuid(a), <<"1">> >>
          /\ ParamGet(urlParams, <<"b", "r", "i", "d", "g", "e">>) = BridgeURL
          /\ ParamGet(urlParams, <<"k", "e", "y">>) = HexKey(b)

\* ---- C31 ---------------------------------------------------------------
\* C31: no step removes the index entry of a user while the session the
\* entry points to stays in the store.
C31_IndexEntryOfLiveSessionKept ==
  [][\A u \in DOMAIN userSessions :
       ( /\ userSessions[u] \in DOMAIN sessions
         /\ userSessions[u] \in DOMAIN sessions' )
       => u \in DOMAIN userSessions'
    ]_vars

\* ---- C32 ---------------------------------------------------------------
\* C32: in the step in which the approval of a stored session k completes
\* while the index of its user names another stored session j, no field of
\* j changes and no 'Wallet Connected' message is started or sent.
C32_ForeignApprovalLeavesCurrent ==
  [][\A k \in DOMAIN sessions :
       LET u == sessions[k].telegramUserId IN
       ( /\ approval[k] # "resolved"
         /\ approval'[k] = "resolved"
         /\ u \in DOMAIN userSessions
         /\ userSessions[u] # k
         /\ userSessions[u] \in DOMAIN sessions )
       => /\ userSessions[u] \in DOMAIN sessions'
          /\ sessions'[userSessions[u]] = sessions[userSessions[u]]
          /\ notifs' = notifs
          /\ notified' = notified
    ]_vars

\* ---- C33 ---------------------------------------------------------------
\* C33: in the step in which a sendTransaction call fails whose session is
\* no longer the one indexed for its user, the pending-transaction record
\* of the session that is indexed now is left as it was.
C33_FailureLeavesNewRecord ==
  [][\A t \in TXIDs :
       LET u == send[t].user IN
       ( /\ RacePending(send[t])
         /\ send'[t].pc = "settled"
         /\ send'[t].result # "success"
         /\ u \in DOMAIN userSessions
         /\ userSessions[u] # send[t].sessionId
         /\ userSessions[u] \in DOMAIN pendingTransactions )
       => /\ userSessions[u] \in DOMAIN pendingTransactions'
          /\ pendingTransactions'[userSessions[u]]
               = pendingTransactions[userSessions[u]]
    ]_vars

\* ---- C34 ---------------------------------------------------------------
\* C34: a stored session that has been idle for longer than the idle window
\* is, after any step that keeps it in the store, still idle for longer than
\* the window.
C34_ExpiredStaysExpired ==
  [][\A k \in DOMAIN sessions :
       (Expired(sessions[k]) /\ k \in DOMAIN sessions')
       => Expired(sessions'[k])
    ]_vars

\* ---- C35 ---------------------------------------------------------------
\* C35: in every reachable state a stored session with connected = true has
\* an address, and a checkConnection made then for any user does not return
\* connected: true without an address.
C35_ConnectedHasAddress ==
  /\ \A k \in DOMAIN sessions :
       sessions[k].connected => sessions[k].address # Null
  /\ \A u \in Users :
       checkConnection(Tables, u).ret.connected
       => checkConnection(Tables, u).ret.address # Null

\* an approval that carried no account has completed for a stored session,
\* which is not connected, next to a session that is connected
C35_Witness ==
  \E k, j \in DOMAIN sessions :
    /\ approval[k] = "resolved"
    /\ connector[k].accounts = <<>>
    /\ ~sessions[k].connected
    /\ sessions[j].connected
    /\ sessions[j].address # Null

\* ---- C36 ---------------------------------------------------------------
\* C36: once the session a create call stored is no longer in the store,
\* every step leaves its id out of the session store, out of the values of
\* the userId index and out of the pending-transaction table.
C36_RemovedNeverReturns ==
  [][\A k \in SIDs :
       (Returned(k) /\ k \notin DOMAIN sessions) => TornDown(k)'
    ]_vars

\* the approval of a session completed with an account after the session
\* had been removed: it notified nobody and the tables have nothing of it
C36_Witness ==
  \E k \in SIDs :
    /\ Returned(k)
    /\ k \notin DOMAIN sessions
    /\ approval[k] = "resolved"
    /\ connector[k].accounts # <<>>
    /\ notified[k] = 0
    /\ TornDown(k)

\* ---- C37 ---------------------------------------------------------------
\* C37: in a step in which the timer of a /connect sends 'Connection
\* Timeout' while the index of its user names a stored session of a later
\* /connect, the session the timer's own /connect created has not been
\* approved: its approval has not completed with an account.
C37_TimeoutOnlyForOwnSession ==
  [][\A k \in SIDs :
       LET u == create[k].user IN
       ( /\ ~create[k].timedOut
         /\ create'[k].timedOut
         /\ u \in DOMAIN userSessions
         /\ userSessions[u] > k
         /\ userSessions[u] \in DOMAIN sessions' )
       => ~(approval[k] = "resolved" /\ connector[k].accounts # <<>>)
    ]_vars

\* ---- C38 ---------------------------------------------------------------
\* C38: in every reachable state, checkConnection for a user whose indexed
\* session is stored and within its idle window leaves the session store,
\* the userId index and the pending-transaction table, lastActivity of the
\* session included, exactly as they are.
C38_CheckConnectionReadsOnly ==
  \A u \in DOMAIN userSessions :
    ( /\ userSessions[u] \in DOMAIN sessions
      /\ ~Expired(sessions[userSessions[u]]) )
    => checkConnection(Tables, u).T = Tables

\* a poller is running for a user whose indexed session is unconnected and
\* has aged a full idle window without expiring
C38_Witness ==
  \E k \in DOMAIN sessions :
    /\ create[k].poll = "on"
    /\ create[k].user \in DOMAIN userSessions
    /\ userSessions[create[k].user] = k
    /\ ~sessions[k].connected
    /\ sessions[k].idle = IdleWindow
====
